---- MODULE Spec2Model ----
(***************************************************************************)
(* Model of src/app.py: the NewsAggregator (aggregation engine, cache and  *)
(* scheduler, bookmark store) and the Flask routes that call into it.      *)
(*                                                                         *)
(* Threads of the program: the main thread (module import constructs the   *)
(* aggregator, then app.run serves), the daemon refresh_worker thread, and *)
(* the request threads of the threaded Flask server.                       *)
(***************************************************************************)
EXTENDS Integers, Sequences, FiniteSets, TLC

VARIABLES
    news_cache,     \* self.news_cache: a dict (sequence of key/value pairs)
    last_refresh,   \* self.last_refresh: 0 is None, otherwise a timestamp
    clock,          \* the last value datetime.now() returned
    mainPc,         \* position of the main thread in __init__
    workerPc,       \* position of refresh_worker
    fresh_news,     \* refresh_worker's local fresh_news
    reqPc,          \* position of each request thread
    reqLocal,       \* the cycle result a request thread holds before storing it
    call,           \* bookkeeping of the call a request thread is running
    dirty,          \* who stored to news_cache since the last call returned
    lastCall,       \* the call that returned last, and what it returned
    initial_news,   \* the initial refresh's cycle result before it is stored
    lists,          \* the list objects of the bookmark store, by identity
    bookmarks,      \* self.bookmarks: the identity of the current list object
    file,           \* bookmarks.json
    bt,             \* each bookmark request thread: position and locals
    loaded,         \* what load_bookmarks returned at construction
    log,            \* the bookmark requests answered so far, in order
    nOps,           \* bookmark requests started so far
    adapters,       \* FetchSpec: the outcome of each adapter in the cycle
    cycle_out,      \* FetchSpec: what fetch_all_news returned
    cycle_done,     \* FetchSpec: whether the cycle has run
    adapter,        \* AdapterSpec: the adapter that was called, "" before
    upstream,       \* AdapterSpec: what the upstream answered to its requests
    run,            \* AdapterSpec: what the body of the adapter computed
    returned        \* AdapterSpec: how the adapter call ended

cacheVars == <<news_cache, last_refresh, mainPc, workerPc, fresh_news,
               reqPc, reqLocal, call, dirty, lastCall, initial_news>>
adapterVars == <<adapter, upstream, run, returned>>
fetchVars == <<adapters, cycle_out, cycle_done, adapterVars>>
bookmarkVars == <<lists, bookmarks, file, bt, loaded, log, nOps>>
vars == <<clock, cacheVars, fetchVars, bookmarkVars>>

(***************************************************************************)
(* Bounds of the model.                                                    *)
(***************************************************************************)
MaxClock == 2
MaxItem == 1
MaxOps == 3
MaxLoaded == 2

\* the request threads of the server that run at the same time
RequestThreads == {1, 2}

\* the urls and titles bookmark requests carry; "" is a missing field
Urls == {"u1", "u2"}
Titles == {"T"}

(***************************************************************************)
(* self.sources: the ordered mapping of source name to adapter.            *)
(***************************************************************************)
SourceNames ==
    << "LessWrong", "EA Forum", "Substack (Last 24h)", "Business",
       "Hacker News", "Marginal Revolution", "Bloomberg",
       "Nature Neuroscience", "Gwern.net" >>

(***************************************************************************)
(* A Python dict: an insertion-ordered sequence of [k, v] pairs; {} is the *)
(* empty sequence.  d[k] = v replaces the value of a key already present   *)
(* and appends a new key otherwise.                                        *)
(***************************************************************************)
EmptyDict == << >>

DictHas(d, k) == \E i \in 1..Len(d) : d[i].k = k

DictKeys(d) == [i \in 1..Len(d) |-> d[i].k]

DictGet(d, k) == d[CHOOSE i \in 1..Len(d) : d[i].k = k].v

DictSet(d, k, v) ==
    IF DictHas(d, k)
    THEN [i \in 1..Len(d) |-> IF d[i].k = k THEN [k |-> k, v |-> v] ELSE d[i]]
    ELSE Append(d, [k |-> k, v |-> v])

(***************************************************************************)
(* What one adapter call does: it raises, or it returns a sequence of      *)
(* items.  Items are numbered; the number stands for a {title, url} pair.  *)
(***************************************************************************)
Raises == [raises |-> TRUE, items |-> << >>]
Returns(items) == [raises |-> FALSE, items |-> items]

\* what the body of an adapter computed: whether it raised, the candidates
\* it kept, and the list it had just before building the returned sequence
Body(fail, kept, ranked) == [fail |-> fail, kept |-> kept, ranked |-> ranked]

NoAnswer == [fail |-> FALSE, entries |-> << >>]

\* no adapter has been called
AdapterIdle ==
    /\ adapter = ""
    /\ upstream = NoAnswer
    /\ run = Body(FALSE, << >>, << >>)
    /\ returned = Returns(<< >>)

ItemLists == {<< >>} \cup {<<i>> : i \in 1..MaxItem}
AdapterOutcomes == {Raises} \cup {Returns(l) : l \in ItemLists}

(***************************************************************************)
(* fetch_all_news: the body of the loop for one source, then the loop.     *)
(***************************************************************************)
SkipSource(all_news, source_name, outcome) ==
    IF outcome.raises
    THEN all_news
    ELSE DictSet(all_news, source_name, outcome.items)

StoreSource(all_news, source_name, outcome) ==
    IF outcome.raises
    THEN DictSet(all_news, source_name, << >>)
    ELSE DictSet(all_news, source_name, outcome.items)

RECURSIVE FetchLoop(_, _, _)
FetchLoop(i, all_news, outcomes) ==
    IF i > Len(SourceNames)
    THEN all_news
    ELSE FetchLoop(i + 1, StoreSource(all_news, SourceNames[i], outcomes[i]),
                   outcomes)

fetch_all_news(outcomes) == FetchLoop(1, EmptyDict, outcomes)

(***************************************************************************)
(* One aggregation cycle on its own: the adapters' outcomes are the input. *)
(***************************************************************************)
FetchInit ==
    /\ adapters \in [1..Len(SourceNames) -> AdapterOutcomes]
    /\ cycle_out = EmptyDict
    /\ cycle_done = FALSE
    /\ AdapterIdle

RunCycle ==
    /\ ~cycle_done
    /\ cycle_out' = fetch_all_news(adapters)
    /\ cycle_done' = TRUE
    /\ UNCHANGED <<adapters, adapterVars>>

(***************************************************************************)
(* The cache and scheduler.                                                *)
(*                                                                         *)
(* What the upstream sites do during one cycle.  The engine's try/except   *)
(* isolates an adapter that raises; the handlers' own try blocks also      *)
(* cover asyncio.new_event_loop, set_event_loop, run_until_complete and    *)
(* loop.close, which raise outside fetch_all_news (OSError when the loop's *)
(* selector or self-pipe cannot be created): that outcome is what their    *)
(* except branches handle, and it is modelled by the ...Raise actions.     *)
(***************************************************************************)
AllRaise == [i \in 1..Len(SourceNames) |-> Raises]
AllReturn(l) == [i \in 1..Len(SourceNames) |-> Returns(l)]
OneRaises(j, l) ==
    [i \in 1..Len(SourceNames) |-> IF i = j THEN Raises ELSE Returns(l)]

\* every site is down; every site serves edition 1; the first site is down
\* and the others serve edition 2
Upstreams == {AllRaise, AllReturn(<<1>>), OneRaises(1, <<2>>)}

\* every mapping one cycle can return
CycleResults == {fetch_all_news(up) : up \in Upstreams}

AllFailed(outcomes) == \A i \in 1..Len(outcomes) : outcomes[i].raises

\* `not self.news_cache`: an empty dict is falsy, any dict with a key is truthy
CacheAllEmpty(cache) ==
    \A i \in 1..Len(cache) : cache[i].v = << >>

CacheIsEmpty(cache) == cache = EmptyDict

\* self.news_cache = <cycle result>: the name is rebound to the new dict
MergeCache(old, new) ==
    [i \in 1..Len(new) |->
        IF new[i].v = << >> /\ DictHas(old, new[i].k)
        THEN [k |-> new[i].k, v |-> DictGet(old, new[i].k)]
        ELSE new[i]]

StoreCache(old, new) == new

\* datetime.now(): later calls return later times; the model's clock stops at
\* MaxClock
Now == IF clock < MaxClock THEN clock + 1 ELSE clock

(***************************************************************************)
(* Bookkeeping of the calls, read by the properties only.                  *)
(*   call[r].wasEmpty    the cache was {} when get_cached_news tested it   *)
(*   call[r].ran         cycles the call has started                       *)
(*   call[r].allFail     every adapter raised in the call's cycle          *)
(*   call[r].before      the cache force_refresh overwrote                 *)
(*   call[r].foreign     what other threads stored (as for dirty) since    *)
(*                       the read began or since force_refresh's own store *)
(*   call[r].overlapped  another call returned while this one was running  *)
(*   dirty               0: nothing stored to news_cache or last_refresh   *)
(*                       since the last call returned; 1: only reads'      *)
(*                       empty-cache fallbacks did; 2: a periodic or an    *)
(*                       on-demand refresh did                             *)
(***************************************************************************)
IdleCall ==
    [wasEmpty |-> FALSE, ran |-> 0, allFail |-> FALSE, before |-> EmptyDict,
     foreign |-> 0, overlapped |-> FALSE]

NoCall == [op |-> "none", val |-> EmptyDict, ok |-> TRUE, allFail |-> FALSE]

GetReturned(val) == [op |-> "get", val |-> val, ok |-> TRUE, allFail |-> FALSE]

ForceReturned(before, ok, allFail) ==
    [op |-> "force", val |-> before, ok |-> ok, allFail |-> allFail]

Stored(c, kind, t) ==
    [r \in RequestThreads |->
        IF r # t /\ reqPc[r] \notin {"idle", "force_fetch", "force_store"}
        THEN [c[r] EXCEPT !.foreign = IF @ < kind THEN kind ELSE @]
        ELSE c[r]]

CacheInit ==
    /\ news_cache = EmptyDict
    /\ last_refresh = 0
    /\ clock = 0
    /\ mainPc = "start_background_refresh"
    /\ workerPc = "unstarted"
    /\ fresh_news = EmptyDict
    /\ initial_news = EmptyDict
    /\ reqPc = [r \in RequestThreads |-> "idle"]
    /\ reqLocal = [r \in RequestThreads |-> EmptyDict]
    /\ call = [r \in RequestThreads |-> IdleCall]
    /\ dirty = 0
    /\ lastCall = NoCall

reqVars == <<reqPc, reqLocal, call, dirty, lastCall>>
workerVars == <<workerPc, fresh_news>>

(***************************************************************************)
(* start_background_refresh, run by the main thread inside __init__.       *)
(***************************************************************************)
\* refresh_thread.start(): the worker runs from here on
StartWorker ==
    /\ mainPc = "start_background_refresh"
    /\ mainPc' = "initial_fetch"
    /\ workerPc' = "fetch"
    /\ UNCHANGED <<news_cache, last_refresh, clock, fresh_news, initial_news,
                   reqVars>>

\* the initial refresh: loop.run_until_complete(self.fetch_all_news())
InitialFetch ==
    /\ mainPc = "initial_fetch"
    /\ \E up \in Upstreams : initial_news' = fetch_all_news(up)
    /\ mainPc' = "initial_store"
    /\ UNCHANGED <<news_cache, last_refresh, clock, workerVars, reqVars>>

\* the initial refresh raises: except ... self.news_cache = {}
InitialRaise ==
    /\ mainPc = "initial_fetch"
    /\ news_cache' = EmptyDict
    /\ mainPc' = "serving"
    /\ UNCHANGED <<last_refresh, clock, initial_news, workerVars, reqVars>>

\* self.news_cache = <result of the initial cycle>
InitialStore ==
    /\ mainPc = "initial_store"
    /\ news_cache' = StoreCache(news_cache, initial_news)
    /\ initial_news' = EmptyDict
    /\ mainPc' = "initial_stamp"
    /\ UNCHANGED <<last_refresh, clock, workerVars, reqVars>>

\* self.last_refresh = datetime.now(); __init__ returns and app.run serves
InitialStamp ==
    /\ mainPc = "initial_stamp"
    /\ last_refresh' = Now
    /\ clock' = Now
    /\ mainPc' = "serving"
    /\ UNCHANGED <<news_cache, initial_news, workerVars, reqVars>>

(***************************************************************************)
(* refresh_worker, the daemon thread: while True, a cycle and a sleep.     *)
(***************************************************************************)
WorkerFetch ==
    /\ workerPc = "fetch"
    /\ \E returned_news \in CycleResults : fresh_news' = returned_news
    /\ workerPc' = "store"
    /\ UNCHANGED <<news_cache, last_refresh, clock, mainPc, initial_news,
                   reqVars>>

\* a worker without the except branch: the exception ends the thread
WorkerRaiseEndsThread ==
    /\ workerPc = "fetch"
    /\ workerPc' = "ended"
    /\ UNCHANGED <<news_cache, last_refresh, clock, mainPc, initial_news,
                   fresh_news, reqVars>>

\* except Exception: print, fall through to the sleep
WorkerRaise ==
    /\ workerPc = "fetch"
    /\ workerPc' = "sleep"
    /\ UNCHANGED <<news_cache, last_refresh, clock, mainPc, initial_news,
                   fresh_news, reqVars>>

\* self.news_cache = fresh_news
WorkerStore ==
    /\ workerPc = "store"
    /\ news_cache' = StoreCache(news_cache, fresh_news)
    /\ fresh_news' = EmptyDict
    /\ workerPc' = "stamp"
    /\ call' = Stored(call, 2, 0)
    /\ dirty' = 2
    /\ UNCHANGED <<last_refresh, clock, mainPc, initial_news, reqPc, reqLocal,
                   lastCall>>

\* self.last_refresh = datetime.now()
WorkerStamp ==
    /\ workerPc = "stamp"
    /\ last_refresh' = Now
    /\ clock' = Now
    /\ workerPc' = "sleep"
    /\ call' = Stored(call, 2, 0)
    /\ dirty' = 2
    /\ UNCHANGED <<news_cache, mainPc, initial_news, fresh_news, reqPc,
                   reqLocal, lastCall>>

\* time.sleep(self.cache_duration) returns and the loop goes round
WorkerWake ==
    /\ workerPc = "sleep"
    /\ workerPc' = "fetch"
    /\ UNCHANGED <<news_cache, last_refresh, clock, mainPc, initial_news,
                   fresh_news, reqVars>>

(***************************************************************************)
(* The request threads: /api/news calls get_cached_news, /api/refresh      *)
(* calls force_refresh.  Requests are served once __init__ has returned.   *)
(***************************************************************************)
Begin(r, pc) ==
    /\ mainPc = "serving"
    /\ reqPc[r] = "idle"
    /\ reqPc' = [reqPc EXCEPT ![r] = pc]
    /\ call' = [call EXCEPT ![r] = IdleCall]
    /\ UNCHANGED <<news_cache, last_refresh, clock, mainPc, initial_news,
                   workerVars, reqLocal, dirty, lastCall>>

Return(r, rec, d) ==
    /\ lastCall' = rec
    /\ dirty' = d
    /\ reqPc' = [reqPc EXCEPT ![r] = "idle"]
    /\ call' = [q \in RequestThreads |->
                    IF q = r THEN IdleCall
                    ELSE IF reqPc[q] # "idle"
                    THEN [call[q] EXCEPT !.overlapped = TRUE]
                    ELSE call[q]]

StartGet(r) == Begin(r, "get_check")

\* if not self.news_cache:
GetCheck(r) ==
    /\ reqPc[r] = "get_check"
    /\ reqPc' = [reqPc EXCEPT ![r] = IF CacheIsEmpty(news_cache)
                                     THEN "get_fetch" ELSE "get_return"]
    /\ call' = [call EXCEPT ![r].wasEmpty = (news_cache = EmptyDict)]
    /\ UNCHANGED <<news_cache, last_refresh, clock, mainPc, initial_news,
                   workerVars, reqLocal, dirty, lastCall>>

\* loop.run_until_complete(self.fetch_all_news())
GetFetch(r) ==
    /\ reqPc[r] = "get_fetch"
    /\ \E up \in Upstreams :
        reqLocal' = [reqLocal EXCEPT ![r] = fetch_all_news(up)]
    /\ call' = [call EXCEPT ![r].ran = @ + 1]
    /\ reqPc' = [reqPc EXCEPT ![r] = "get_store"]
    /\ UNCHANGED <<news_cache, last_refresh, clock, mainPc, initial_news,
                   workerVars, dirty, lastCall>>

\* the cycle raises: except Exception: print
GetRaise(r) ==
    /\ reqPc[r] = "get_fetch"
    /\ call' = [call EXCEPT ![r].ran = @ + 1]
    /\ reqPc' = [reqPc EXCEPT ![r] = "get_except"]
    /\ UNCHANGED <<news_cache, last_refresh, clock, mainPc, initial_news,
                   workerVars, reqLocal, dirty, lastCall>>

\* return {}
GetExceptReturn(r) ==
    /\ reqPc[r] = "get_except"
    /\ Return(r, GetReturned(EmptyDict), call[r].foreign)
    /\ UNCHANGED <<news_cache, last_refresh, clock, mainPc, initial_news,
                   workerVars, reqLocal>>

\* self.news_cache = <result of the cycle>
GetStore(r) ==
    /\ reqPc[r] = "get_store"
    /\ news_cache' = StoreCache(news_cache, reqLocal[r])
    /\ reqLocal' = [reqLocal EXCEPT ![r] = EmptyDict]
    /\ reqPc' = [reqPc EXCEPT ![r] = "get_stamp"]
    /\ call' = Stored(call, 1, r)
    /\ dirty' = IF dirty < 1 THEN 1 ELSE dirty
    /\ UNCHANGED <<last_refresh, clock, mainPc, initial_news, workerVars,
                   lastCall>>

\* self.last_refresh = datetime.now()
GetStamp(r) ==
    /\ reqPc[r] = "get_stamp"
    /\ last_refresh' = Now
    /\ clock' = Now
    /\ reqPc' = [reqPc EXCEPT ![r] = "get_return"]
    /\ call' = Stored(call, 1, r)
    /\ dirty' = IF dirty < 1 THEN 1 ELSE dirty
    /\ UNCHANGED <<news_cache, mainPc, initial_news, workerVars, reqLocal,
                   lastCall>>

\* return self.news_cache
GetReturn(r) ==
    /\ reqPc[r] = "get_return"
    /\ Return(r, GetReturned(news_cache), call[r].foreign)
    /\ UNCHANGED <<news_cache, last_refresh, clock, mainPc, initial_news,
                   workerVars, reqLocal>>

StartForce(r) == Begin(r, "force_fetch")

\* loop.run_until_complete(self.fetch_all_news())
ForceFetch(r) ==
    /\ reqPc[r] = "force_fetch"
    /\ \E up \in Upstreams :
        /\ reqLocal' = [reqLocal EXCEPT ![r] = fetch_all_news(up)]
        /\ call' = [call EXCEPT ![r].ran = @ + 1,
                                ![r].allFail = AllFailed(up)]
    /\ reqPc' = [reqPc EXCEPT ![r] = "force_store"]
    /\ UNCHANGED <<news_cache, last_refresh, clock, mainPc, initial_news,
                   workerVars, dirty, lastCall>>

\* the cycle raises: except Exception: print, return False
ForceRaiseResets(r) ==
    /\ reqPc[r] = "force_fetch"
    /\ news_cache' = EmptyDict
    /\ Return(r, ForceReturned(news_cache, FALSE, FALSE), 0)
    /\ UNCHANGED <<last_refresh, clock, mainPc, initial_news,
                   workerVars, reqLocal>>

ForceRaise(r) ==
    /\ reqPc[r] = "force_fetch"
    /\ Return(r, ForceReturned(news_cache, FALSE, FALSE), 0)
    /\ UNCHANGED <<news_cache, last_refresh, clock, mainPc, initial_news,
                   workerVars, reqLocal>>

\* self.news_cache = <result of the cycle>
ForceStore(r) ==
    /\ reqPc[r] = "force_store"
    /\ news_cache' = StoreCache(news_cache, reqLocal[r])
    /\ reqLocal' = [reqLocal EXCEPT ![r] = EmptyDict]
    /\ reqPc' = [reqPc EXCEPT ![r] = "force_stamp"]
    /\ call' = [Stored(call, 2, r) EXCEPT ![r].before = news_cache,
                                          ![r].foreign = 0]
    /\ dirty' = 2
    /\ UNCHANGED <<last_refresh, clock, mainPc, initial_news, workerVars,
                   lastCall>>

\* self.last_refresh = datetime.now(); print; return True
ForceStamp(r) ==
    /\ reqPc[r] = "force_stamp"
    /\ last_refresh' = Now
    /\ clock' = Now
    /\ Return(r, ForceReturned(call[r].before, TRUE, call[r].allFail),
              call[r].foreign)
    /\ UNCHANGED <<news_cache, mainPc, initial_news, workerVars, reqLocal>>

(***************************************************************************)
(* The bookmark store.                                                     *)
(*                                                                         *)
(* self.bookmarks names a list object.  add_bookmark inserts into the      *)
(* object the name refers to when it is loaded; remove_bookmark builds a   *)
(* new list object and rebinds the name.  A thread that iterates a list,   *)
(* or that has loaded the name and not yet called insert, holds the object *)
(* it loaded, whatever the name refers to by then.                         *)
(***************************************************************************)
ListIds == 0..Cardinality(RequestThreads)
NoList == -1

Bookmark(title, url, timestamp) ==
    [title |-> title, url |-> url, source |-> "S", timestamp |-> timestamp]

\* datetime.now().isoformat() of a new bookmark
Timestamp == clock + 1

UrlsOf(list) == [i \in 1..Len(list) |-> list[i].url]

HasUrl(list, url) == \E i \in 1..Len(list) : list[i].url = url

\* if existing['url'] == url
MatchesTitle(existing, url) == existing.title = url

Matches(existing, url) == existing.url = url

\* if b['url'] != url
KeepsMatching(b, url) == b.url = url

Keeps(b, url) == b.url # url

\* self.bookmarks.insert(0, bookmark)
InsertLast(list, bookmark) == Append(list, bookmark)

InsertFront(list, bookmark) == <<bookmark>> \o list

\* the list object self.bookmarks refers to
Content == lists[bookmarks]

\* bookmarks.json: absent, not parseable, cut short by a failed write, or a
\* document holding a list
AbsentFile == [state |-> "absent", doc |-> << >>]
UnreadableFile == [state |-> "unreadable", doc |-> << >>]
PartialFile == [state |-> "partial", doc |-> << >>]
Document(list) == [state |-> "ok", doc |-> list]

\* load_bookmarks: the parsed document, [] when there is none to parse
load_bookmarks(f) == IF f.state = "ok" THEN f.doc ELSE << >>

RECURSIVE SeqsUpTo(_, _)
SeqsUpTo(S, n) ==
    IF n = 0 THEN {<< >>}
    ELSE LET shorter == SeqsUpTo(S, n - 1)
         IN  shorter \cup {Append(q, x) : q \in shorter, x \in S}

InitialFiles ==
    {AbsentFile, UnreadableFile}
        \cup {Document([i \in 1..Len(us) |-> Bookmark("T", us[i], 0)]) :
                us \in SeqsUpTo(Urls, MaxLoaded)}

IdleThread ==
    [pc |-> "idle", url |-> "", title |-> "", ts |-> 0, held |-> NoList,
     idx |-> 0, acc |-> << >>, before |-> << >>, saved |-> AbsentFile]

\* a list object nobody can reach any more is dropped
Collect(ls, current, threads) ==
    [i \in ListIds |->
        IF i = current \/ \E r \in RequestThreads : threads[r].held = i
        THEN ls[i] ELSE << >>]

FreeId(current, threads) ==
    CHOOSE i \in ListIds :
        /\ i # current
        /\ \A r \in RequestThreads : threads[r].held # i
        /\ \A j \in ListIds :
            (j # current /\ \A r \in RequestThreads : threads[r].held # j)
                => i <= j

BookmarkInit ==
    /\ file \in InitialFiles
    /\ lists = [i \in ListIds |-> IF i = 0 THEN load_bookmarks(file) ELSE << >>]
    /\ bookmarks = 0
    /\ loaded = load_bookmarks(file)
    /\ bt = [r \in RequestThreads |-> IdleThread]
    /\ log = << >>
    /\ nOps = 0

BookmarkIdle ==
    /\ file = AbsentFile
    /\ lists = [i \in ListIds |-> << >>]
    /\ bookmarks = 0
    /\ loaded = << >>
    /\ bt = [r \in RequestThreads |-> IdleThread]
    /\ log = << >>
    /\ nOps = 0

\* the route answers: the request is logged and the thread is free again
Respond(r, op, resp, failed, fileBefore) ==
    /\ log' = Append(log, [op |-> op, url |-> bt[r].url, resp |-> resp,
                           before |-> bt[r].before, after |-> Content,
                           writeFailed |-> failed, fileBefore |-> fileBefore])
    /\ bt' = [bt EXCEPT ![r] = IdleThread]

(***************************************************************************)
(* save_bookmarks: open(..., 'w') truncates the file, then json.dump       *)
(* writes the list self.bookmarks referred to when the dump began.  Either *)
(* step can raise; a failing write leaves the file cut short.  okResp and  *)
(* failResp are what the route answers for True and for False.             *)
(***************************************************************************)
Outcomes == {"ok", "fails"}

\* with open(self.bookmarks_file, 'w', ...) as f, and the argument of the dump
SaveOpen(r, op, pc, next, failResp) ==
    /\ bt[r].pc = pc
    /\ \E out \in Outcomes :
        IF out = "ok"
        THEN /\ file' = PartialFile
             /\ bt' = [bt EXCEPT ![r].pc = next, ![r].held = bookmarks,
                                 ![r].saved = file]
             /\ UNCHANGED log
        ELSE /\ Respond(r, op, failResp, TRUE, file)
             /\ UNCHANGED file
    /\ UNCHANGED <<clock, lists, bookmarks, loaded, nOps>>

\* json.dump(self.bookmarks, f, ...); return True, or False from the except
SaveWrite(r, op, pc, okResp, failResp) ==
    /\ bt[r].pc = pc
    /\ \E out \in Outcomes :
        IF out = "ok"
        THEN /\ file' = Document(lists[bt[r].held])
             /\ Respond(r, op, okResp, FALSE, bt[r].saved)
        ELSE /\ file' = PartialFile
             /\ Respond(r, op, failResp, TRUE, bt[r].saved)
    /\ lists' = Collect(lists, bookmarks, [bt EXCEPT ![r] = IdleThread])
    /\ UNCHANGED <<clock, bookmarks, loaded, nOps>>

(***************************************************************************)
(* POST /api/bookmark and add_bookmark.                                    *)
(***************************************************************************)
\* if not title or not url: 400
AddInvalid(r, title, url) ==
    /\ bt[r].pc = "idle"
    /\ nOps < MaxOps
    /\ title = "" \/ url = ""
    /\ nOps' = nOps + 1
    /\ log' = Append(log, [op |-> "add", url |-> url, resp |-> "invalid",
                           before |-> Content, after |-> Content,
                           writeFailed |-> FALSE, fileBefore |-> file])
    /\ UNCHANGED <<clock, lists, bookmarks, file, bt, loaded>>

\* the bookmark is built and the for loop takes its iterator
AddStart(r, title, url) ==
    /\ bt[r].pc = "idle"
    /\ nOps < MaxOps
    /\ title # "" /\ url # ""
    /\ nOps' = nOps + 1
    /\ clock' = Timestamp
    /\ bt' = [bt EXCEPT ![r] = [IdleThread EXCEPT !.pc = "add_scan",
                                                  !.url = url,
                                                  !.title = title,
                                                  !.ts = Timestamp,
                                                  !.held = bookmarks,
                                                  !.idx = 1,
                                                  !.before = Content]]
    /\ UNCHANGED <<lists, bookmarks, file, loaded, log>>

\* for existing in self.bookmarks: the next element passes the test
AddScanNext(r) ==
    /\ bt[r].pc = "add_scan"
    /\ bt[r].idx <= Len(lists[bt[r].held])
    /\ ~Matches(lists[bt[r].held][bt[r].idx], bt[r].url)
    /\ bt' = [bt EXCEPT ![r].idx = @ + 1]
    /\ UNCHANGED <<clock, lists, bookmarks, file, loaded, log, nOps>>

\* if existing['url'] == url: return False; the route answers 400
AddScanFound(r) ==
    /\ bt[r].pc = "add_scan"
    /\ bt[r].idx <= Len(lists[bt[r].held])
    /\ Matches(lists[bt[r].held][bt[r].idx], bt[r].url)
    /\ lists' = Collect(lists, bookmarks, [bt EXCEPT ![r] = IdleThread])
    /\ Respond(r, "add", "already", FALSE, file)
    /\ UNCHANGED <<clock, bookmarks, file, loaded, nOps>>

\* the loop ends without a match
AddScanEnd(r) ==
    /\ bt[r].pc = "add_scan"
    /\ bt[r].idx > Len(lists[bt[r].held])
    /\ bt' = [bt EXCEPT ![r].pc = "add_load", ![r].held = NoList, ![r].idx = 0]
    /\ lists' = Collect(lists, bookmarks, bt')
    /\ UNCHANGED <<clock, bookmarks, file, loaded, log, nOps>>

\* self.bookmarks.insert: the name is loaded
AddLoad(r) ==
    /\ bt[r].pc = "add_load"
    /\ bt' = [bt EXCEPT ![r].pc = "add_insert", ![r].held = bookmarks]
    /\ UNCHANGED <<clock, lists, bookmarks, file, loaded, log, nOps>>

\* insert(0, bookmark) on the object that was loaded
AddInsert(r) ==
    /\ bt[r].pc = "add_insert"
    /\ bt' = [bt EXCEPT ![r].pc = "add_save", ![r].held = NoList]
    /\ lists' = Collect(
            [lists EXCEPT ![bt[r].held] =
                InsertFront(@, Bookmark(bt[r].title, bt[r].url, bt[r].ts))],
            bookmarks, bt')
    /\ UNCHANGED <<clock, bookmarks, file, loaded, log, nOps>>

\* return self.save_bookmarks(); the route answers by the result
AddOpen(r) == SaveOpen(r, "add", "add_save", "add_write", "already")

AddWrite(r) == SaveWrite(r, "add", "add_write", "success", "already")

(***************************************************************************)
(* DELETE /api/bookmark and remove_bookmark.                               *)
(***************************************************************************)
\* if not url: 400
RemoveInvalid(r) ==
    /\ bt[r].pc = "idle"
    /\ nOps < MaxOps
    /\ nOps' = nOps + 1
    /\ log' = Append(log, [op |-> "remove", url |-> "", resp |-> "invalid",
                           before |-> Content, after |-> Content,
                           writeFailed |-> FALSE, fileBefore |-> file])
    /\ UNCHANGED <<clock, lists, bookmarks, file, bt, loaded>>

\* the comprehension takes the iterator of self.bookmarks
RemoveStart(r, url) ==
    /\ bt[r].pc = "idle"
    /\ nOps < MaxOps
    /\ url # ""
    /\ nOps' = nOps + 1
    /\ bt' = [bt EXCEPT ![r] = [IdleThread EXCEPT !.pc = "remove_scan",
                                                  !.url = url,
                                                  !.held = bookmarks,
                                                  !.idx = 1,
                                                  !.before = Content]]
    /\ UNCHANGED <<clock, lists, bookmarks, file, loaded, log>>

\* [b for b in self.bookmarks if b['url'] != url]: one element
RemoveScanNext(r) ==
    /\ bt[r].pc = "remove_scan"
    /\ bt[r].idx <= Len(lists[bt[r].held])
    /\ LET b == lists[bt[r].held][bt[r].idx]
       IN  bt' = [bt EXCEPT ![r].idx = @ + 1,
                            ![r].acc = IF Keeps(b, bt[r].url)
                                       THEN Append(@, b) ELSE @]
    /\ UNCHANGED <<clock, lists, bookmarks, file, loaded, log, nOps>>

\* self.bookmarks = <the new list>
RemoveBind(r) ==
    /\ bt[r].pc = "remove_scan"
    /\ bt[r].idx > Len(lists[bt[r].held])
    /\ bt' = [bt EXCEPT ![r].pc = "remove_save", ![r].held = NoList,
                        ![r].idx = 0, ![r].acc = << >>]
    /\ LET new == FreeId(bookmarks, [bt EXCEPT ![r].held = bookmarks])
       IN  /\ bookmarks' = new
           /\ lists' = Collect([lists EXCEPT ![new] = bt[r].acc], new, bt')
    /\ UNCHANGED <<clock, file, loaded, log, nOps>>

\* return self.save_bookmarks(); the route answers success whatever it returned
RemoveOpen(r) == SaveOpen(r, "remove", "remove_save", "remove_write", "success")

RemoveWrite(r) == SaveWrite(r, "remove", "remove_write", "success", "success")

CycleIdle ==
    /\ adapters = AllRaise
    /\ cycle_out = EmptyDict
    /\ cycle_done = FALSE

FetchIdle == CycleIdle /\ AdapterIdle

bookmarkFrame == <<cacheVars, fetchVars>>

\* the requests of any number of threads, interleaved
BookmarkNext ==
    \/ \E r \in RequestThreads, u \in Urls \cup {""}, t \in Titles \cup {""} :
        AddInvalid(r, t, u) /\ UNCHANGED bookmarkFrame
    \/ \E r \in RequestThreads, u \in Urls, t \in Titles :
        AddStart(r, t, u) /\ UNCHANGED bookmarkFrame
    \/ \E r \in RequestThreads : AddScanNext(r) /\ UNCHANGED bookmarkFrame
    \/ \E r \in RequestThreads : AddScanFound(r) /\ UNCHANGED bookmarkFrame
    \/ \E r \in RequestThreads : AddScanEnd(r) /\ UNCHANGED bookmarkFrame
    \/ \E r \in RequestThreads : AddLoad(r) /\ UNCHANGED bookmarkFrame
    \/ \E r \in RequestThreads : AddInsert(r) /\ UNCHANGED bookmarkFrame
    \/ \E r \in RequestThreads : AddOpen(r) /\ UNCHANGED bookmarkFrame
    \/ \E r \in RequestThreads : AddWrite(r) /\ UNCHANGED bookmarkFrame
    \/ \E r \in RequestThreads : RemoveInvalid(r) /\ UNCHANGED bookmarkFrame
    \/ \E r \in RequestThreads, u \in Urls :
        RemoveStart(r, u) /\ UNCHANGED bookmarkFrame
    \/ \E r \in RequestThreads : RemoveScanNext(r) /\ UNCHANGED bookmarkFrame
    \/ \E r \in RequestThreads : RemoveBind(r) /\ UNCHANGED bookmarkFrame
    \/ \E r \in RequestThreads : RemoveOpen(r) /\ UNCHANGED bookmarkFrame
    \/ \E r \in RequestThreads : RemoveWrite(r) /\ UNCHANGED bookmarkFrame

BookmarkSpecInit == CacheInit /\ FetchIdle /\ BookmarkInit

BookmarkSpec == BookmarkSpecInit /\ [][BookmarkNext]_vars

\* the requests one at a time: each is answered before the next is sent
BookmarkSeqNext ==
    \/ \E u \in Urls \cup {""}, t \in Titles \cup {""} :
        AddInvalid(1, t, u) /\ UNCHANGED bookmarkFrame
    \/ \E u \in Urls, t \in Titles :
        AddStart(1, t, u) /\ UNCHANGED bookmarkFrame
    \/ AddScanNext(1) /\ UNCHANGED bookmarkFrame
    \/ AddScanFound(1) /\ UNCHANGED bookmarkFrame
    \/ AddScanEnd(1) /\ UNCHANGED bookmarkFrame
    \/ AddLoad(1) /\ UNCHANGED bookmarkFrame
    \/ AddInsert(1) /\ UNCHANGED bookmarkFrame
    \/ AddOpen(1) /\ UNCHANGED bookmarkFrame
    \/ AddWrite(1) /\ UNCHANGED bookmarkFrame
    \/ RemoveInvalid(1) /\ UNCHANGED bookmarkFrame
    \/ \E u \in Urls : RemoveStart(1, u) /\ UNCHANGED bookmarkFrame
    \/ RemoveScanNext(1) /\ UNCHANGED bookmarkFrame
    \/ RemoveBind(1) /\ UNCHANGED bookmarkFrame
    \/ RemoveOpen(1) /\ UNCHANGED bookmarkFrame
    \/ RemoveWrite(1) /\ UNCHANGED bookmarkFrame

BookmarkSeqSpec == BookmarkSpecInit /\ [][BookmarkSeqNext]_vars

CacheNext ==
    \/ StartWorker /\ UNCHANGED <<fetchVars, bookmarkVars>>
    \/ InitialFetch /\ UNCHANGED <<fetchVars, bookmarkVars>>
    \/ InitialRaise /\ UNCHANGED <<fetchVars, bookmarkVars>>
    \/ InitialStore /\ UNCHANGED <<fetchVars, bookmarkVars>>
    \/ InitialStamp /\ UNCHANGED <<fetchVars, bookmarkVars>>
    \/ WorkerFetch /\ UNCHANGED <<fetchVars, bookmarkVars>>
    \/ WorkerRaise /\ UNCHANGED <<fetchVars, bookmarkVars>>
    \/ WorkerStore /\ UNCHANGED <<fetchVars, bookmarkVars>>
    \/ WorkerStamp /\ UNCHANGED <<fetchVars, bookmarkVars>>
    \/ WorkerWake /\ UNCHANGED <<fetchVars, bookmarkVars>>
    \/ \E r \in RequestThreads : StartGet(r) /\ UNCHANGED <<fetchVars, bookmarkVars>>
    \/ \E r \in RequestThreads : GetCheck(r) /\ UNCHANGED <<fetchVars, bookmarkVars>>
    \/ \E r \in RequestThreads : GetFetch(r) /\ UNCHANGED <<fetchVars, bookmarkVars>>
    \/ \E r \in RequestThreads : GetRaise(r) /\ UNCHANGED <<fetchVars, bookmarkVars>>
    \/ \E r \in RequestThreads : GetExceptReturn(r) /\ UNCHANGED <<fetchVars, bookmarkVars>>
    \/ \E r \in RequestThreads : GetStore(r) /\ UNCHANGED <<fetchVars, bookmarkVars>>
    \/ \E r \in RequestThreads : GetStamp(r) /\ UNCHANGED <<fetchVars, bookmarkVars>>
    \/ \E r \in RequestThreads : GetReturn(r) /\ UNCHANGED <<fetchVars, bookmarkVars>>
    \/ \E r \in RequestThreads : StartForce(r) /\ UNCHANGED <<fetchVars, bookmarkVars>>
    \/ \E r \in RequestThreads : ForceFetch(r) /\ UNCHANGED <<fetchVars, bookmarkVars>>
    \/ \E r \in RequestThreads : ForceRaise(r) /\ UNCHANGED <<fetchVars, bookmarkVars>>
    \/ \E r \in RequestThreads : ForceStore(r) /\ UNCHANGED <<fetchVars, bookmarkVars>>
    \/ \E r \in RequestThreads : ForceStamp(r) /\ UNCHANGED <<fetchVars, bookmarkVars>>

CacheSpecInit == CacheInit /\ FetchIdle /\ BookmarkIdle

CacheSpec == CacheSpecInit /\ [][CacheNext]_vars

FetchNext == RunCycle /\ UNCHANGED <<clock, cacheVars, bookmarkVars>>

FetchSpecInit == FetchInit /\ CacheInit /\ BookmarkIdle

FetchSpec == FetchSpecInit /\ [][FetchNext]_vars

(***************************************************************************)
(* The adapters.  What an upstream answers is a record: fail says that the *)
(* request or the parse of its response raised, entries is the parsed      *)
(* payload.  A JSON object or a feed entry is a record whose fields are    *)
(* the keys it has; null is Null, and a number n is Num(n).                *)
(***************************************************************************)
MaxEntries == 2

Failed == [fail |-> TRUE]
Null == [null |-> TRUE]
Num(n) == [n |-> n]

IsFailed(x) == "fail" \in DOMAIN x
IsNull(x) == "null" \in DOMAIN x
Has(obj, key) == key \in DOMAIN obj

\* s[:n]
Take(s, n) == SubSeq(s, 1, IF Len(s) < n THEN Len(s) ELSE n)

\* dict.get(key, default)
Get(obj, key, default) == IF Has(obj, key) THEN obj[key] ELSE default

\* except Exception as e: print(...); return []
Uncaught(body) ==
    IF body.fail THEN Raises ELSE Returns(body.ranked)

Caught(body) ==
    IF body.fail THEN Returns(<< >>) ELSE Returns(body.ranked)

(***************************************************************************)
(* sorted(list, key=..., reverse=True): a stable sort, entries with equal  *)
(* keys keep their order.  It compares the keys of all entries when there  *)
(* are two or more, and a comparison with None raises TypeError.           *)
(***************************************************************************)
InsertBefore(sorted, x, key) ==
    LET n == Cardinality({i \in 1..Len(sorted) : sorted[i][key].n > x[key].n})
    IN  SubSeq(sorted, 1, n) \o <<x>> \o SubSeq(sorted, n + 1, Len(sorted))

InsertDescending(sorted, x, key) ==
    LET n == Cardinality({i \in 1..Len(sorted) : sorted[i][key].n >= x[key].n})
    IN  SubSeq(sorted, 1, n) \o <<x>> \o SubSeq(sorted, n + 1, Len(sorted))

RECURSIVE SortLoop(_, _, _, _)
SortLoop(list, i, sorted, key) ==
    IF i > Len(list) THEN sorted
    ELSE SortLoop(list, i + 1, InsertDescending(sorted, list[i], key), key)

SortRaises(list) ==
    Len(list) >= 2 /\ \E i \in 1..Len(list) : IsNull(list[i].score)

\* the body of the try ends with `return sorted(...)`
SortedByScore(list) ==
    IF SortRaises(list) THEN Body(TRUE, list, << >>)
    ELSE Body(FALSE, list, SortLoop(list, 1, << >>, "score"))

(***************************************************************************)
(* Upstream payloads: the entries that differ, after a run of plain ones   *)
(* long enough to reach the limit of the adapter.                          *)
(***************************************************************************)
Fill(entry, n) == [i \in 1..n |-> entry]

Payloads(entries, filler, limit) ==
    {[fail |-> TRUE, entries |-> << >>]}
        \cup {[fail |-> FALSE, entries |-> Fill(filler, n) \o tail] :
                n \in {0, limit - 1, limit},
                tail \in SeqsUpTo(entries, MaxEntries)}

(***************************************************************************)
(* get_hackernews: the ids of the top stories, then one request per id.    *)
(* entries holds the answer to the request for each id, in order.          *)
(***************************************************************************)
HackerNewsLimit == 20

HackerNewsStories ==
    { Failed, Null,
      [title |-> "A", url |-> "ua", score |-> Num(1)],
      [title |-> "B", url |-> "ub", score |-> Num(2)],
      [title |-> "C", url |-> "uc", score |-> Num(2)],
      [title |-> "D", score |-> Num(3)],
      [title |-> "", url |-> "", score |-> Num(3)],
      [title |-> "E", url |-> "ue"],
      [title |-> "N", url |-> "un", score |-> Null] }

HackerNewsUpstreams ==
    Payloads(HackerNewsStories,
             [title |-> "F", url |-> "uf", score |-> Num(1)], HackerNewsLimit)

RECURSIVE HackerNewsLoop(_, _, _)
HackerNewsLoop(story_ids, i, stories) ==
    IF i > Len(story_ids) THEN SortedByScore(stories)
    ELSE LET story == story_ids[i]
         IN  IF IsFailed(story) THEN Body(TRUE, stories, << >>)
             ELSE IF ~IsNull(story) /\ Has(story, "title") /\ Has(story, "url")
             THEN HackerNewsLoop(story_ids, i + 1,
                    Append(stories, [title |-> story.title,
                                     url |-> story.url,
                                     score |-> Get(story, "score", Num(0))]))
             ELSE HackerNewsLoop(story_ids, i + 1, stories)

hackernews_body(up) ==
    IF up.fail THEN Body(TRUE, << >>, << >>)
    ELSE HackerNewsLoop(Take(up.entries, HackerNewsLimit), 1, << >>)

\* one call of an adapter on what its upstream answers
Call(name, up, body, result) ==
    /\ adapter' = name
    /\ upstream' = up
    /\ run' = body
    /\ returned' = result

get_hackernews ==
    /\ adapter = ""
    /\ \E up \in HackerNewsUpstreams :
        LET body == hackernews_body(up)
        IN  Call("Hacker News", up, body, Caught(body))

(***************************************************************************)
(* get_lesswrong and get_ea_forum: one GraphQL request; entries is         *)
(* data.posts.results.  The field data of the answer says whether the      *)
(* response has data.posts ("posts"), has no key 'data' ("absent") or has  *)
(* 'data': null ("null").                                                  *)
(***************************************************************************)
GraphQLLimit == 20

GraphQLPosts ==
    { [title |-> "A", slug |-> "a", _id |-> "1", baseScore |-> Num(1)],
      [title |-> "B", slug |-> "b", _id |-> "2", baseScore |-> Num(2)],
      [title |-> "C", slug |-> "c", _id |-> "", baseScore |-> Num(2)],
      [title |-> "", slug |-> "", baseScore |-> Num(3)],
      [slug |-> "d", _id |-> "4", baseScore |-> Num(1)],
      [title |-> "E", _id |-> "5"],
      [title |-> "N", slug |-> "n", _id |-> "6", baseScore |-> Null] }

GraphQLUpstreams ==
    Payloads(GraphQLPosts,
             [title |-> "F", slug |-> "f", _id |-> "7", baseScore |-> Num(1)],
             GraphQLLimit)
        \cup {[fail |-> FALSE, entries |-> << >>, data |-> d] :
                d \in {"absent", "null"}}

RECURSIVE LessWrongLoop(_, _, _)
LessWrongLoop(results, i, posts) ==
    IF i > Len(results) THEN SortedByScore(posts)
    ELSE LET post == results[i]
         IN  IF ~Has(post, "title") \/ ~Has(post, "slug")
             THEN Body(TRUE, posts, << >>)
             ELSE LessWrongLoop(results, i + 1,
                    Append(posts,
                        [title |-> post.title,
                         url |-> "https://www.lesswrong.com/posts/" \o post.slug,
                         score |-> Get(post, "baseScore", Num(0))]))

lesswrong_body(up) ==
    IF up.fail \/ Get(up, "data", "posts") = "null"
    THEN Body(TRUE, << >>, << >>)
    ELSE IF Get(up, "data", "posts") = "absent"
    THEN SortedByScore(<< >>)
    ELSE LessWrongLoop(up.entries, 1, << >>)

get_lesswrong ==
    /\ adapter = ""
    /\ \E up \in GraphQLUpstreams :
        LET body == lesswrong_body(up)
        IN  Call("LessWrong", up, body, Caught(body))

EAForumUrl(post_id, slug) ==
    IF post_id # ""
    THEN "https://forum.effectivealtruism.org/posts/" \o post_id \o "/" \o slug
    ELSE "https://forum.effectivealtruism.org/posts/" \o slug

RECURSIVE EAForumLoop(_, _, _)
EAForumLoop(results, i, posts) ==
    IF i > Len(results) THEN SortedByScore(posts)
    ELSE LET post == results[i]
         IN  IF ~Has(post, "title")
             THEN Body(TRUE, posts, << >>)
             ELSE EAForumLoop(results, i + 1,
                    Append(posts,
                        [title |-> post.title,
                         url |-> EAForumUrl(Get(post, "_id", ""),
                                            Get(post, "slug", "")),
                         score |-> Get(post, "baseScore", Num(0))]))

ea_forum_body(up) ==
    IF up.fail \/ Get(up, "data", "posts") = "null"
    THEN Body(TRUE, << >>, << >>)
    ELSE IF Get(up, "data", "posts") = "absent"
    THEN SortedByScore(<< >>)
    ELSE EAForumLoop(up.entries, 1, << >>)

get_ea_forum ==
    /\ adapter = ""
    /\ \E up \in GraphQLUpstreams :
        LET body == ea_forum_body(up)
        IN  Call("EA Forum", up, body, Caught(body))

(***************************************************************************)
(* Strings of the scraped pages.  None is Python's None where a string is  *)
(* expected (link.get('href') of a link without href).                     *)
(***************************************************************************)
None == "<None>"

\* str.strip()
Strip(text) ==
    CASE text = " Post " -> "Post"
      [] text = "  " -> ""
      [] text = " A long title " -> "A long title"
      [] OTHER -> text

\* len(title)
StrLen(text) ==
    CASE text = "" -> 0
      [] text = "Post" -> 4
      [] text = "A long title" -> 12
      [] OTHER -> 1

\* href.startswith(prefix)
StartsWith(href, prefix) ==
    \/ prefix = "#" /\ href \in {"#top"}
    \/ prefix = "/" /\ href \in {"/doc"}

(***************************************************************************)
(* get_marginal_revolution: entries are the h2.entry-title elements of the *)
(* page, each with the first link in it, if any.                           *)
(***************************************************************************)
MarginalRevolutionLimit == 10

NoLink == [nolink |-> TRUE]

MarginalRevolutionArticles ==
    { NoLink,
      [text |-> " Post ", href |-> "https://mr.com/1"],
      [text |-> "Post", href |-> "https://mr.com/2"],
      [text |-> "  ", href |-> "https://mr.com/3"],
      [text |-> "Post", href |-> ""],
      [text |-> "Post"] }

MarginalRevolutionUpstreams ==
    Payloads(MarginalRevolutionArticles,
             [text |-> "Post", href |-> "https://mr.com/0"],
             MarginalRevolutionLimit)

RECURSIVE MarginalRevolutionLoop(_, _, _)
MarginalRevolutionLoop(article_links, i, posts) ==
    IF i > Len(article_links) THEN Body(FALSE, posts, posts)
    ELSE LET link == article_links[i]
         IN  IF Has(link, "nolink")
             THEN MarginalRevolutionLoop(article_links, i + 1, posts)
             ELSE MarginalRevolutionLoop(article_links, i + 1,
                    Append(posts, [title |-> Strip(link.text),
                                   url |-> Get(link, "href", None)]))

marginal_revolution_body(up) ==
    IF up.fail THEN Body(TRUE, << >>, << >>)
    ELSE MarginalRevolutionLoop(Take(up.entries, MarginalRevolutionLimit),
                                1, << >>)

get_marginal_revolution ==
    /\ adapter = ""
    /\ \E up \in MarginalRevolutionUpstreams :
        LET body == marginal_revolution_body(up)
        IN  Call("Marginal Revolution", up, body, Caught(body))

(***************************************************************************)
(* get_gwern: entries are the links of the page that have an href.         *)
(***************************************************************************)
GwernLinks == 15
GwernLimit == 10

GwernAnchors ==
    {[text |-> t, href |-> h] :
        t \in {"", "Post", " A long title "},
        h \in {"", "#top", "/doc", "https://x.org/a"}}

GwernUpstreams ==
    Payloads(GwernAnchors,
             [text |-> "A long title", href |-> "https://x.org/f"],
             GwernLinks)

RECURSIVE GwernLoop(_, _, _)
GwernLoop(links, i, posts) ==
    IF i > Len(links) THEN Body(FALSE, posts, Take(posts, GwernLimit))
    ELSE LET href == links[i].href
             title == Strip(links[i].text)
         IN  IF href # "" /\ title # "" /\ StrLen(title) > 10
                    /\ ~StartsWith(href, "#")
             THEN GwernLoop(links, i + 1,
                    Append(posts,
                        [title |-> title,
                         url |-> IF StartsWith(href, "/")
                                 THEN "https://gwern.net" \o href
                                 ELSE href]))
             ELSE GwernLoop(links, i + 1, posts)

gwern_body(up) ==
    IF up.fail THEN Body(TRUE, << >>, << >>)
    ELSE GwernLoop(Take(up.entries, GwernLinks), 1, << >>)

get_gwern ==
    /\ adapter = ""
    /\ \E up \in GwernUpstreams :
        LET body == gwern_body(up)
        IN  Call("Gwern.net", up, body, Caught(body))

(***************************************************************************)
(* get_bloomberg and get_nature_neuro: one feed, its first entries.  An    *)
(* entry without title or link raises AttributeError when it is read.      *)
(***************************************************************************)
BloombergLimit == 15
NatureNeuroLimit == 10

FeedEntries ==
    { [title |-> "A", link |-> "https://f.org/a"],
      [title |-> "", link |-> "https://f.org/b"],
      [title |-> "C", link |-> ""],
      [title |-> "D"],
      [link |-> "https://f.org/e"] }

FeedFiller == [title |-> "F", link |-> "https://f.org/f"]

RECURSIVE FeedLoop(_, _, _)
FeedLoop(entries, i, posts) ==
    IF i > Len(entries) THEN Body(FALSE, posts, posts)
    ELSE LET entry == entries[i]
         IN  IF ~Has(entry, "title") \/ ~Has(entry, "link")
             THEN Body(TRUE, posts, << >>)
             ELSE FeedLoop(entries, i + 1,
                    Append(posts, [title |-> entry.title, url |-> entry.link]))

feed_body(up, limit) ==
    IF up.fail THEN Body(TRUE, << >>, << >>)
    ELSE FeedLoop(Take(up.entries, limit), 1, << >>)

get_bloomberg ==
    /\ adapter = ""
    /\ \E up \in Payloads(FeedEntries, FeedFiller, BloombergLimit) :
        LET body == feed_body(up, BloombergLimit)
        IN  Call("Bloomberg", up, body, Caught(body))

get_nature_neuro ==
    /\ adapter = ""
    /\ \E up \in Payloads(FeedEntries, FeedFiller, NatureNeuroLimit) :
        LET body == feed_body(up, NatureNeuroLimit)
        IN  Call("Nature Neuroscience", up, body, Caught(body))

(***************************************************************************)
(* get_substack_feeds and get_business_feeds: one feedparser.parse per     *)
(* feed of the list.  Times are in ticks, Day ticks to the day; StartTime  *)
(* is the time (UTC) at which the window is computed.  An entry's          *)
(* published_parsed is absent, Null, a time, or a value datetime() rejects *)
(* ([bad |-> TRUE]).                                                       *)
(*                                                                         *)
(* feedparser gives published_parsed in UTC and the datetime built from   *)
(* it keeps these numbers; datetime.now() is the wall clock of the host,   *)
(* which is                                                                *)
(* UTC plus the offset of the host's time zone.                            *)
(***************************************************************************)
Day == 10
StartTime == 100
MultiFeedLimit == 20

\* the offset of the host's time zone from UTC, in ticks
UtcOffsets == {-1, 0, 1}

\* datetime.now() at time t on a host with this offset
WallClock(t, utc_offset) == t + utc_offset

\* the feeds of the model: the first of substack_feeds, and business_feeds
SubstackFeeds == <<"benthams", "humaninvariant">>
BusinessFeeds == <<"The Diff", "Stratechery", "SemiAnalysis">>

SubstackWindow == 1 * Day
BusinessWindow == 3 * Day

TimedEntries(window) ==
    { [title |-> "A", link |-> "https://s.org/a",
       published_parsed |-> Num(StartTime)],
      [title |-> "B", link |-> "https://s.org/b",
       published_parsed |-> Num(StartTime - window)],
      [title |-> "C", link |-> "https://s.org/c",
       published_parsed |-> Num(StartTime - window - 1)],
      [title |-> "D", link |-> "https://s.org/d"],
      [link |-> "https://s.org/h", published_parsed |-> Num(StartTime)],
      [title |-> "", link |-> "", published_parsed |-> Null],
      [title |-> "J", link |-> "https://s.org/j",
       published_parsed |-> [bad |-> TRUE]] }

TimedFiller ==
    [title |-> "F", link |-> "https://s.org/f",
     published_parsed |-> Num(StartTime - 1)]

\* the entries of feed f: the plain ones in the first feed, then the
\* entries of tail that place sends to f, in their order
EntriesOf(f, n, tail, place) ==
    (IF f = 1 THEN Fill(TimedFiller, n) ELSE << >>)
        \o LET here(k) == place[k] = f
               ks == SelectSeq([k \in 1..Len(tail) |-> k], here)
           IN  [k \in 1..Len(ks) |-> tail[ks[k]]]

\* the ways to cut a sequence of entries into one run per feed
Cuts(nFeeds) ==
    {place \in [1..MaxEntries -> 1..nFeeds] :
        \A k \in 1..(MaxEntries - 1) : place[k] <= place[k + 1]}

\* a feed whose parse raises has no entries
MultiFeedUpstreams(feeds, window) ==
    {[fail |-> FALSE,
      utc_offset |-> utc_offset,
      entries |-> [f \in 1..Len(feeds) |->
                      IF f \in failing
                      THEN [fail |-> TRUE, entries |-> << >>]
                      ELSE [fail |-> FALSE,
                            entries |-> EntriesOf(f, n, tail, place)]]] :
        utc_offset \in UtcOffsets,
        failing \in SUBSET (1..Len(feeds)),
        n \in {0, MultiFeedLimit},
        tail \in SeqsUpTo(TimedEntries(window), MaxEntries),
        place \in Cuts(Len(feeds))}

\* hasattr(entry, 'published_parsed') and entry.published_parsed
Dated(entry) ==
    Has(entry, "published_parsed") /\ ~IsNull(entry.published_parsed)

\* all_posts.sort(key=lambda x: x['published'], reverse=True), all_posts[:20]
SortedByPublished(all_posts) ==
    Body(FALSE, all_posts,
         Take(SortLoop(all_posts, 1, << >>, "published"), MultiFeedLimit))

\* [{'title': post['title'], 'url': post['url']} for post in ...]
Essential(posts) ==
    [k \in 1..Len(posts) |-> [title |-> posts[k].title, url |-> posts[k].url]]

\* the loop over the entries of one feed; an exception ends it and the
\* outer loop continues with the next feed
RECURSIVE SubstackEntryLoop(_, _, _, _)
SubstackEntryLoop(entries, j, all_posts, one_day_ago) ==
    IF j > Len(entries) THEN all_posts
    ELSE LET entry == entries[j]
         IN  IF ~Dated(entry)
             THEN SubstackEntryLoop(entries, j + 1, all_posts, one_day_ago)
             ELSE IF Has(entry.published_parsed, "bad") THEN all_posts
             ELSE IF entry.published_parsed.n < one_day_ago
             THEN SubstackEntryLoop(entries, j + 1, all_posts, one_day_ago)
             ELSE IF ~Has(entry, "title") \/ ~Has(entry, "link")
             THEN all_posts
             ELSE SubstackEntryLoop(entries, j + 1,
                    Append(all_posts,
                        [title |-> entry.title, url |-> entry.link,
                         published |-> entry.published_parsed,
                         fallback |-> FALSE]),
                    one_day_ago)

RECURSIVE SubstackLoop(_, _, _, _)
SubstackLoop(feeds, i, all_posts, one_day_ago) ==
    IF i > Len(feeds) THEN SortedByPublished(all_posts)
    ELSE IF feeds[i].fail
    THEN SubstackLoop(feeds, i + 1, all_posts, one_day_ago)
    ELSE SubstackLoop(feeds, i + 1,
            SubstackEntryLoop(feeds[i].entries, 1, all_posts, one_day_ago),
            one_day_ago)

substack_body(up) ==
    SubstackLoop(up.entries, 1, << >>,
                 WallClock(StartTime, up.utc_offset) - SubstackWindow)

get_substack_feeds ==
    /\ adapter = ""
    /\ \E up \in MultiFeedUpstreams(SubstackFeeds, SubstackWindow) :
        LET body == substack_body(up)
        IN  Call("Substack (Last 24h)", up, body,
                 Returns(Essential(body.ranked)))

\* datetime.now() of a fallback entry: the clock has moved on by a tick
\* for each reading so far, or has not moved since the window was computed
NowAt(all_posts, advances, utc_offset) ==
    IF advances
    THEN WallClock(StartTime + 1
            + Cardinality({k \in 1..Len(all_posts) : all_posts[k].fallback}),
            utc_offset)
    ELSE WallClock(StartTime, utc_offset)

RECURSIVE BusinessEntryLoop(_, _, _, _, _, _, _)
BusinessEntryLoop(entries, j, all_posts, one_day_ago, source_name, advances, utc_offset) ==
    IF j > Len(entries) THEN all_posts
    ELSE LET entry == entries[j]
             next(posts) == BusinessEntryLoop(entries, j + 1, posts,
                                one_day_ago, source_name, advances, utc_offset)
         IN  IF Dated(entry)
             THEN IF Has(entry.published_parsed, "bad") THEN all_posts
                  ELSE IF entry.published_parsed.n < one_day_ago
                  THEN next(all_posts)
                  ELSE IF ~Has(entry, "title") \/ ~Has(entry, "link")
                  THEN all_posts
                  ELSE next(Append(all_posts,
                        [title |-> "[" \o source_name \o "] " \o entry.title,
                         url |-> entry.link,
                         published |-> entry.published_parsed,
                         fallback |-> FALSE]))
             ELSE IF ~Has(entry, "title") \/ ~Has(entry, "link")
                  THEN all_posts
                  ELSE next(Append(all_posts,
                        [title |-> "[" \o source_name \o "] " \o entry.title,
                         url |-> entry.link,
                         published |->
                            Num(NowAt(all_posts, advances, utc_offset)),
                         fallback |-> TRUE]))

RECURSIVE BusinessLoop(_, _, _, _, _, _)
BusinessLoop(feeds, i, all_posts, one_day_ago, advances, utc_offset) ==
    IF i > Len(feeds) THEN SortedByPublished(all_posts)
    ELSE IF feeds[i].fail
    THEN BusinessLoop(feeds, i + 1, all_posts, one_day_ago, advances,
                      utc_offset)
    ELSE BusinessLoop(feeds, i + 1,
            BusinessEntryLoop(feeds[i].entries, 1, all_posts, one_day_ago,
                              BusinessFeeds[i], advances, utc_offset),
            one_day_ago, advances, utc_offset)

business_body(up, advances) ==
    BusinessLoop(up.entries, 1, << >>,
                 WallClock(StartTime, up.utc_offset) - BusinessWindow,
                 advances, up.utc_offset)

get_business_feeds ==
    /\ adapter = ""
    /\ \E up \in MultiFeedUpstreams(BusinessFeeds, BusinessWindow),
          advances \in BOOLEAN :
        LET body == business_body(up, advances)
        IN  Call("Business",
                 [fail |-> FALSE, entries |-> up.entries,
                  utc_offset |-> up.utc_offset, advances |-> advances],
                 body, Returns(Essential(body.ranked)))

adapterFrame == <<clock, cacheVars, bookmarkVars, adapters, cycle_out, cycle_done>>

AdapterNext ==
    \/ get_hackernews /\ UNCHANGED adapterFrame
    \/ get_lesswrong /\ UNCHANGED adapterFrame
    \/ get_ea_forum /\ UNCHANGED adapterFrame
    \/ get_marginal_revolution /\ UNCHANGED adapterFrame
    \/ get_gwern /\ UNCHANGED adapterFrame
    \/ get_bloomberg /\ UNCHANGED adapterFrame
    \/ get_nature_neuro /\ UNCHANGED adapterFrame
    \/ get_substack_feeds /\ UNCHANGED adapterFrame
    \/ get_business_feeds /\ UNCHANGED adapterFrame

AdapterSpecInit == CacheInit /\ FetchIdle /\ BookmarkIdle

AdapterSpec == AdapterSpecInit /\ [][AdapterNext]_vars


(***************************************************************************)
(* Properties of the aggregation engine and of the cache.                  *)
(***************************************************************************)
\* a read is at its return statement: `return {}` or `return self.news_cache`
Returning(r) == reqPc[r] \in {"get_return", "get_except"}

ReturnValue(r) == IF reqPc[r] = "get_except" THEN EmptyDict ELSE news_cache

\* C1: whatever adapters raise or return, one cycle returns a mapping whose
\* keys are exactly the 9 source names, in their order; the key of an adapter
\* that raised maps to the empty sequence, the key of one that returned maps
\* to the sequence it returned.
C1_CycleHasEveryKey ==
    cycle_done =>
        /\ DictKeys(cycle_out) = SourceNames
        /\ \A i \in 1..Len(SourceNames) :
            DictGet(cycle_out, SourceNames[i]) =
                IF adapters[i].raises THEN << >> ELSE adapters[i].items

C1_Witness ==
    /\ cycle_done
    /\ \E i, j \in 1..Len(SourceNames) :
        /\ adapters[i].raises
        /\ ~adapters[j].raises
        /\ adapters[j].items # << >>

\* C2: a force_refresh that found the cache holding a snapshot S and whose
\* adapters all failed returns failure, and the read that follows it returns S.
C2_FailedRefreshKeepsSnapshot ==
    (lastCall.op = "force" /\ lastCall.allFail /\ lastCall.val # EmptyDict) =>
        /\ ~lastCall.ok
        /\ \A r \in RequestThreads :
            (Returning(r) /\ ~call[r].overlapped /\ dirty = 0) =>
                ReturnValue(r) = lastCall.val

\* C5: once news_cache is not empty it is not empty in any later state.
C5_NeverBackToEmpty ==
    [][news_cache # EmptyDict => news_cache' # EmptyDict]_vars

\* C6: every value a read returns, and every value news_cache holds, is the
\* initial empty mapping or the whole result of one cycle, never a mixture of
\* two cycles' lists or a part of one.
C6_ReadersSeeWholeCycles ==
    /\ news_cache \in {EmptyDict} \cup CycleResults
    /\ lastCall.op = "get" => lastCall.val \in {EmptyDict} \cup CycleResults

C6_Witness ==
    /\ lastCall.op = "get"
    /\ lastCall.val \in CycleResults
    /\ news_cache # lastCall.val
    /\ workerPc = "store"
    /\ \E r \in RequestThreads : reqPc[r] = "force_store"

\* C7: a read starts a cycle only if the cache was empty when it tested it,
\* and then it starts exactly one before it returns; a read of a populated
\* cache returns without starting any.
C7_OneCycleOnlyWhenEmpty ==
    \A r \in RequestThreads :
        /\ reqPc[r] \in {"get_fetch", "get_store", "get_stamp", "get_except"}
            => call[r].wasEmpty
        /\ Returning(r) => call[r].ran = IF call[r].wasEmpty THEN 1 ELSE 0

C7_Witness ==
    \E r, q \in RequestThreads :
        /\ reqPc[r] = "get_return" /\ call[r].wasEmpty /\ call[r].ran = 1
        /\ reqPc[q] = "get_return" /\ ~call[q].wasEmpty /\ call[q].ran = 0
        /\ \A i \in 1..Len(news_cache) : news_cache[i].v = << >>

\* C8: every mapping a read returns contains all 9 source keys.
C8_ReadHasEveryKey ==
    lastCall.op = "get" => DictKeys(lastCall.val) = SourceNames

\* C9: a read that follows another read, with no periodic or on-demand refresh
\* storing between the two, returns what the first one returned.
C9_ReadsAgree ==
    \A r \in RequestThreads :
        (Returning(r) /\ lastCall.op = "get" /\ ~call[r].overlapped
            /\ dirty < 2) =>
            ReturnValue(r) = lastCall.val

(***************************************************************************)
(* Properties of the bookmark store.                                       *)
(***************************************************************************)
NoDuplicateUrl(list) ==
    \A i, j \in 1..Len(list) : i # j => list[i].url # list[j].url

CountUrl(list, url) == Cardinality({i \in 1..Len(list) : list[i].url = url})

Without(list, url) == LET other(b) == b.url # url IN SelectSeq(list, other)

AllIdle == \A r \in RequestThreads : bt[r].pc = "idle"

\* the requests for url answered so far, by place in the log
Adds(url) ==
    {k \in 1..Len(log) :
        log[k].op = "add" /\ log[k].url = url /\ log[k].resp # "invalid"}

\* C3: with requests one at a time and a loaded list free of duplicate urls,
\* no two bookmarks of the list ever have the same url; an add of a url the
\* list holds answers "already bookmarked" and leaves the list as it was.
C3_UrlsStayUnique ==
    /\ NoDuplicateUrl(loaded) => NoDuplicateUrl(Content)
    /\ \A k \in 1..Len(log) :
        (log[k].op = "add" /\ log[k].resp # "invalid"
            /\ HasUrl(log[k].before, log[k].url)) =>
            /\ log[k].resp = "already"
            /\ log[k].after = log[k].before

C3_Witness ==
    /\ NoDuplicateUrl(loaded)
    /\ Len(log) = 3
    /\ log[1].op = "add" /\ log[1].resp = "success"
    /\ log[2].op = "add" /\ log[2].resp = "already"
    /\ log[2].url = log[1].url
    /\ Len(log[2].before) = 2 /\ log[2].after = log[2].before
    /\ log[3].op = "remove" /\ log[3].url # log[1].url
    /\ Len(Content) = 1

\* C4: add requests for one url that run at the same time, on a list without
\* that url and with every write of the file succeeding, leave exactly one
\* bookmark for the url, and exactly one of them is answered with success.
C4_ConcurrentAddsSerialized ==
    \A u \in Urls :
        (/\ AllIdle
         /\ ~HasUrl(loaded, u)
         /\ Cardinality(Adds(u)) >= 2
         /\ \A k \in 1..Len(log) :
                log[k].op = "add" /\ log[k].url = u /\ ~log[k].writeFailed) =>
            /\ CountUrl(Content, u) = 1
            /\ Cardinality({k \in Adds(u) : log[k].resp = "success"}) = 1

LastAnswer == log[Len(log)]

\* C11: when the write of the file fails during an add or a remove, the
\* request is answered as failed, and the list in memory and the file are
\* what they were before the request.
C11_FailedWriteChangesNothing ==
    (AllIdle /\ Len(log) > 0 /\ LastAnswer.writeFailed) =>
        /\ LastAnswer.resp # "success"
        /\ LastAnswer.after = LastAnswer.before
        /\ file = LastAnswer.fileBefore

\* the place in the log of the add that put bookmark b in the list, 0 for a
\* bookmark that was loaded from the file
CompletedAt(b) ==
    LET ks == {k \in 1..Len(log) :
                /\ log[k].op = "add" /\ log[k].resp = "success"
                /\ Head(log[k].after) = b}
    IN  IF ks = {} THEN 0 ELSE CHOOSE k \in ks : TRUE

SingleRequestAdapters ==
    {"Hacker News", "LessWrong", "EA Forum", "Marginal Revolution",
     "Gwern.net", "Bloomberg", "Nature Neuroscience"}

\* C13: every adapter call ends by returning a sequence, never by raising;
\* in a single-request adapter an error at any step of the fetch, a failing
\* detail request of Hacker News among them, makes it return [].
C13_AdaptersAbsorbErrors ==
    adapter # "" =>
        /\ ~returned.raises
        /\ (adapter \in SingleRequestAdapters /\ (upstream.fail \/ run.fail)) =>
                returned = Returns(<< >>)
        /\ (/\ adapter = "Hacker News"
            /\ \E i \in 1..Len(Take(upstream.entries, HackerNewsLimit)) :
                    IsFailed(upstream.entries[i])) =>
                returned = Returns(<< >>)

C13_Witness ==
    /\ adapter = "Hacker News"
    /\ ~upstream.fail
    /\ Len(upstream.entries) = HackerNewsLimit
    /\ IsFailed(upstream.entries[HackerNewsLimit])
    /\ Len(run.kept) = HackerNewsLimit - 1
    /\ returned = Returns(<< >>)

\* a title or url that is there and is not the empty string
NonEmpty(v) == v # "" /\ v # None

\* the most items each adapter is meant to return
ConfiguredMaximum(name) ==
    CASE name = "Hacker News" -> HackerNewsLimit
      [] name \in {"LessWrong", "EA Forum"} -> GraphQLLimit
      [] name \in {"Substack (Last 24h)", "Business"} -> MultiFeedLimit
      [] name = "Marginal Revolution" -> MarginalRevolutionLimit
      [] name = "Bloomberg" -> BloombergLimit
      [] name = "Nature Neuroscience" -> NatureNeuroLimit
      [] name = "Gwern.net" -> GwernLimit

\* C14: whatever the upstream answers, every item an adapter returns has a
\* non-empty title and a non-empty url, and the adapter returns no more items
\* than its configured maximum.
C14_ItemsWellFormed ==
    adapter # "" =>
        /\ \A i \in 1..Len(returned.items) :
            /\ NonEmpty(returned.items[i].title)
            /\ NonEmpty(returned.items[i].url)
        /\ Len(returned.items) <= ConfiguredMaximum(adapter)

ScoreRankedAdapters == {"Hacker News", "LessWrong", "EA Forum"}

\* how often x occurs in list
Count(list, x) == Cardinality({i \in 1..Len(list) : list[i] = x})

\* the items of list that have the score of x, in their order
SameScore(list, x) ==
    LET same(y) == ~IsNull(y.score) /\ y.score.n = x.score.n
    IN  SelectSeq(list, same)

\* C15: what a score-ranked adapter returns when its fetch met no error is a
\* permutation of the candidates it kept, no item has a lower score than the
\* item after it, and items of equal score are in the order they were kept.
C15_RankedByScore ==
    (adapter \in ScoreRankedAdapters /\ ~run.fail) =>
        /\ Len(returned.items) = Len(run.kept)
        /\ \A i \in 1..Len(run.kept) :
            Count(returned.items, run.kept[i]) = Count(run.kept, run.kept[i])
        /\ \A i \in 1..(Len(returned.items) - 1) :
            returned.items[i].score.n >= returned.items[i + 1].score.n
        /\ \A i \in 1..Len(run.kept) :
            ~IsNull(run.kept[i].score) =>
                SameScore(returned.items, run.kept[i])
                    = SameScore(run.kept, run.kept[i])

C15_Witness ==
    /\ adapter = "LessWrong"
    /\ ~run.fail
    /\ Len(run.kept) = GraphQLLimit + 1
    /\ run.kept[Len(run.kept)].title = "B"
    /\ run.kept[Len(run.kept) - 1].title = "A"
    /\ returned.items[1].title = "B"
    /\ returned.items[2].title = "F"
    /\ returned.items[Len(run.kept)].title = "A"

TimeWindowedAdapters == {"Substack (Last 24h)", "Business"}

WindowOf(name) ==
    IF name = "Business" THEN BusinessWindow ELSE SubstackWindow

\* C16: in what a time-windowed adapter returns, every item with a parseable
\* published time was published no earlier than the window before now, only
\* the business adapter has undated fallback items, the items are in
\* non-increasing order of published time, and they are at most 20: the most
\* recent of the entries kept.
C16_WithinWindowNewestFirst ==
    adapter \in TimeWindowedAdapters =>
        /\ returned = Returns(Essential(run.ranked))
        /\ \A i \in 1..Len(run.ranked) :
            /\ ~run.ranked[i].fallback =>
                run.ranked[i].published.n >= StartTime - WindowOf(adapter)
            /\ run.ranked[i].fallback => adapter = "Business"
        /\ \A i \in 1..(Len(run.ranked) - 1) :
            run.ranked[i].published.n >= run.ranked[i + 1].published.n
        /\ Len(run.ranked) <= MultiFeedLimit
        /\ \A i \in 1..Len(run.kept) :
            /\ Count(run.ranked, run.kept[i]) <= Count(run.kept, run.kept[i])
            /\ Count(run.ranked, run.kept[i]) < Count(run.kept, run.kept[i]) =>
                /\ Len(run.ranked) = MultiFeedLimit
                /\ run.kept[i].published.n
                        <= run.ranked[MultiFeedLimit].published.n

\* C17: a refresh whose cycle raises leaves news_cache and last_refresh as
\* they were when it started, in force_refresh and in refresh_worker alike:
\* no step of such a refresh changes either; force_refresh answers its caller
\* with failure, and the failure in the worker reaches no caller.
C17_FailedRefreshChangesNothing ==
    [][/\ \A r \in RequestThreads :
            (reqPc[r] = "idle" /\ reqPc'[r] = "force_fetch") =>
                news_cache' = news_cache /\ last_refresh' = last_refresh
       /\ \A r \in RequestThreads :
            (reqPc[r] = "force_fetch" /\ reqPc'[r] = "idle") =>
                /\ news_cache' = news_cache /\ last_refresh' = last_refresh
                /\ lastCall'.op = "force" /\ ~lastCall'.ok
       /\ (workerPc = "fetch" /\ workerPc' = "sleep") =>
                /\ news_cache' = news_cache /\ last_refresh' = last_refresh
                /\ lastCall' = lastCall]_vars

C17_Witness ==
    /\ lastCall.op = "force" /\ ~lastCall.ok
    /\ lastCall.val # EmptyDict
    /\ news_cache = lastCall.val
    /\ last_refresh > 0
    /\ workerPc = "sleep"
    /\ dirty = 0

\* C18: whatever the interleaving of adds and removes, when every write of
\* the file succeeded and no request is in progress the file holds the list
\* in memory: the same bookmarks in the same order.
C18_FileMirrorsList ==
    (/\ AllIdle
     /\ \A k \in 1..Len(log) : ~log[k].writeFailed
     /\ \E k \in 1..Len(log) : log[k].resp = "success") =>
        file = Document(Content)

\* C19: an add of url u that was answered with success is not lost: when no
\* remove of u was ever requested, u is in the list once every request has
\* been answered, whatever adds and removes of other urls ran beside it
\* (here with every write of the file succeeding).
C19_AcknowledgedAddKept ==
    \A u \in Urls :
        (/\ AllIdle
         /\ \E k \in 1..Len(log) :
                log[k].op = "add" /\ log[k].url = u /\ log[k].resp = "success"
         /\ \A k \in 1..Len(log) :
                ~log[k].writeFailed /\ ~(log[k].op = "remove" /\ log[k].url = u)) =>
            HasUrl(Content, u)

(***************************************************************************)
(* The cache and scheduler with a fair scheduler for the worker thread:    *)
(* the thread is started once __init__ runs, and a worker that can take a  *)
(* step (the cycle ends, the store, the stamp, the sleep returns) takes it *)
(* in the end.  Nothing is assumed of the request threads.                 *)
(***************************************************************************)
WorkerStep ==
    /\ WorkerFetch \/ WorkerRaise \/ WorkerStore \/ WorkerStamp \/ WorkerWake
    /\ UNCHANGED <<fetchVars, bookmarkVars>>

WorkerStart == StartWorker /\ UNCHANGED <<fetchVars, bookmarkVars>>

\* the main thread, the worker and the requests one at a time
CacheSeqNext ==
    \/ StartWorker /\ UNCHANGED <<fetchVars, bookmarkVars>>
    \/ InitialFetch /\ UNCHANGED <<fetchVars, bookmarkVars>>
    \/ InitialRaise /\ UNCHANGED <<fetchVars, bookmarkVars>>
    \/ InitialStore /\ UNCHANGED <<fetchVars, bookmarkVars>>
    \/ InitialStamp /\ UNCHANGED <<fetchVars, bookmarkVars>>
    \/ WorkerFetch /\ UNCHANGED <<fetchVars, bookmarkVars>>
    \/ WorkerRaise /\ UNCHANGED <<fetchVars, bookmarkVars>>
    \/ WorkerStore /\ UNCHANGED <<fetchVars, bookmarkVars>>
    \/ WorkerStamp /\ UNCHANGED <<fetchVars, bookmarkVars>>
    \/ WorkerWake /\ UNCHANGED <<fetchVars, bookmarkVars>>
    \/ StartGet(1) /\ UNCHANGED <<fetchVars, bookmarkVars>>
    \/ GetCheck(1) /\ UNCHANGED <<fetchVars, bookmarkVars>>
    \/ GetFetch(1) /\ UNCHANGED <<fetchVars, bookmarkVars>>
    \/ GetRaise(1) /\ UNCHANGED <<fetchVars, bookmarkVars>>
    \/ GetExceptReturn(1) /\ UNCHANGED <<fetchVars, bookmarkVars>>
    \/ GetStore(1) /\ UNCHANGED <<fetchVars, bookmarkVars>>
    \/ GetStamp(1) /\ UNCHANGED <<fetchVars, bookmarkVars>>
    \/ GetReturn(1) /\ UNCHANGED <<fetchVars, bookmarkVars>>
    \/ StartForce(1) /\ UNCHANGED <<fetchVars, bookmarkVars>>
    \/ ForceFetch(1) /\ UNCHANGED <<fetchVars, bookmarkVars>>
    \/ ForceRaise(1) /\ UNCHANGED <<fetchVars, bookmarkVars>>
    \/ ForceStore(1) /\ UNCHANGED <<fetchVars, bookmarkVars>>
    \/ ForceStamp(1) /\ UNCHANGED <<fetchVars, bookmarkVars>>

CacheFairSpec ==
    /\ CacheSpecInit
    /\ [][CacheSeqNext]_vars
    /\ WF_vars(WorkerStart)
    /\ WF_vars(WorkerStep)

\* C20: with the worker scheduled fairly, the worker starts cycles for ever:
\* every cycle it starts ends in the sleep, whether the cycle raised or not,
\* and every sleep is followed by the start of another cycle.
C20_WorkerNeverStops ==
    /\ []<>(workerPc = "fetch")
    /\ (workerPc = "fetch") ~> (workerPc = "sleep")
    /\ (workerPc = "sleep") ~> (workerPc = "fetch")

\* a cycle of the worker raised before anything was stamped: the worker is in
\* the sleep that follows the except branch
C20_Witness ==
    /\ workerPc = "sleep"
    /\ mainPc = "initial_fetch"
    /\ last_refresh = 0
    /\ news_cache = EmptyDict

\* no thread is between its assignment to news_cache and its assignment to
\* last_refresh
NoStampPending ==
    /\ mainPc # "initial_stamp"
    /\ workerPc # "stamp"
    /\ \A r \in RequestThreads : reqPc[r] \notin {"get_stamp", "force_stamp"}

\* C21: the two fields of the cache agree in every reachable state:
\* last_refresh is set exactly when news_cache is not the empty dict.  Stated
\* here for the states where no refresh is between its two assignments, and
\* with "empty" read as a dict without keys.
C21_CacheFieldsAgree ==
    NoStampPending => (last_refresh # 0 <=> ~CacheIsEmpty(news_cache))

\* C21, for every reachable state, the states between the two assignments of
\* a refresh included
C21_CacheFieldsAgreeAlways ==
    last_refresh # 0 <=> ~CacheIsEmpty(news_cache)

\* the body of the entry loop raises at this entry: datetime(...) of a
\* malformed published_parsed, or entry.title / entry.link of an entry that
\* lacks the attribute; fallback says the loop has the else branch of
\* get_business_feeds
EntryRaises(entry, one_day_ago, fallback) ==
    IF Dated(entry)
    THEN \/ Has(entry.published_parsed, "bad")
         \/ /\ entry.published_parsed.n >= one_day_ago
            /\ ~Has(entry, "title") \/ ~Has(entry, "link")
    ELSE fallback /\ (~Has(entry, "title") \/ ~Has(entry, "link"))

\* the try block of this feed raises: in feedparser.parse or at an entry
FeedFails(feed, one_day_ago, fallback) ==
    \/ feed.fail
    \/ \E j \in 1..Len(feed.entries) :
        EntryRaises(feed.entries[j], one_day_ago, fallback)

\* the same answers of the feeds, the failing feeds left out
NonFailing(feeds, one_day_ago, fallback) ==
    [i \in 1..Len(feeds) |->
        IF FeedFails(feeds[i], one_day_ago, fallback)
        THEN [fail |-> TRUE, entries |-> << >>]
        ELSE feeds[i]]

\* what the adapter that has run returns when only the feeds that did not
\* fail are read: their kept entries, sorted and truncated
OfNonFailingFeeds ==
    LET one_day_ago ==
            WallClock(StartTime, upstream.utc_offset) - WindowOf(adapter)
        others == NonFailing(upstream.entries, one_day_ago,
                             adapter = "Business")
    IN  IF adapter = "Business"
        THEN business_body([upstream EXCEPT !.entries = others],
                           upstream.advances)
        ELSE substack_body([upstream EXCEPT !.entries = others])

\* C22: in both multi-feed adapters, whichever feeds fail, the returned
\* sequence is the one made of the kept entries of the feeds that did not
\* fail, sorted and truncated: a failing feed contributes nothing and takes
\* nothing from the others.
C22_FailingFeedIsolated ==
    adapter \in TimeWindowedAdapters =>
        returned = Returns(Essential(OfNonFailingFeeds.ranked))

====
